---- MODULE Spec2Model ----
(***************************************************************************)
(* Gift ranking engine of app.py: the loaded relation (df), the rarity     *)
(* lookup, the character multiselect and the queries run by the search     *)
(* button.  Effects are written MEDIUM < LARGE < HUGE for the source's     *)
(* three effect strings; "" is any value outside that enumeration.         *)
(***************************************************************************)
EXTENDS Integers, Sequences, FiniteSets, TLC

VARIABLES
    df,                         \* validated relation: sequence of rows, in file order
    all_characters,             \* sorted distinct characters of the unfiltered file
    all_gifts,                  \* distinct gifts of the unfiltered file (the universe)
    rarity_dict,                \* gift -> rarity, a function on the gifts rarity.csv lists
    selected_characters,        \* value of the multiselect
    pc,                         \* "idle" | "warning" | "done" | "KeyError"
    result_df,                  \* find_best_gifts(...) of the last search
    optimal_gifts_data,         \* get_optimal_gifts_per_character(...) of the last search
    shared_gifts_reverse,       \* get_shared_gifts_reverse_lookup(...) of the last search
    generation_candidates,      \* get_generation_candidates(...) of the last search
    common_useless_gifts,       \* useless gifts whose rarity is not 1, sorted
    rare_useless_gifts_sorted   \* useless gifts of rarity 1, sorted

vars == <<df, all_characters, all_gifts, rarity_dict, selected_characters, pc,
          result_df, optimal_gifts_data, shared_gifts_reverse,
          generation_candidates, common_useless_gifts, rare_useless_gifts_sorted>>

----------------------------------------------------------------------------
(* Bounds and input domains *)

MaxRows == 3

Characters == {"A", "B"}
RosterCharacters == {"A", "B", "C"}
Gifts == {"X", "Y"}
RarityValues == {0, 1, 2}

\* Identifiers in ordinal (code point) order: Python compares str this way.
Identifiers == <<"A", "B", "C", "X", "Y">>

NameOrd(s) == CHOOSE i \in 1..Len(Identifiers) : Identifiers[i] = s

----------------------------------------------------------------------------
(* Scoring primitives *)

valid_effects == {"MEDIUM", "LARGE", "HUGE"}

effect_order == <<"MEDIUM", "LARGE", "HUGE">>

\* Code of an effect in the ordered categorical (0 = lowest).
effect_cat(e) == (CHOOSE i \in 1..Len(effect_order) : effect_order[i] = e) - 1

effect_order_dict == [e \in valid_effects |-> effect_cat(e)]

rarity_get(rd, g) == IF g \in DOMAIN rd THEN rd[g] ELSE 0

SetMax(S) == CHOOSE m \in S : \A x \in S : x <= m

----------------------------------------------------------------------------
(* Table primitives (pandas / builtins) *)

\* Lexicographic order on equal-length integer tuples.
LexLess(a, b) ==
    \E i \in 1..Len(a) : a[i] < b[i] /\ \A j \in 1..(i - 1) : a[j] = b[j]

RECURSIVE insert(_, _)
\* p = <<key, row>> goes before the first pair of a greater key
insert(sorted, p) ==
    IF sorted = <<>> THEN <<p>>
    ELSE IF LexLess(p[1], Head(sorted)[1]) THEN <<p>> \o sorted
    ELSE <<Head(sorted)>> \o insert(Tail(sorted), p)

RECURSIVE sort_pairs(_)
sort_pairs(pairs) ==
    IF pairs = <<>> THEN <<>>
    ELSE insert(sort_pairs(SubSeq(pairs, 1, Len(pairs) - 1)), pairs[Len(pairs)])

\* Stable ascending sort of rows, by[i] the key of rows[i] (a tuple of
\* integers; a negated component sorts descending).
sort_values(rows, by) ==
    LET sorted == sort_pairs([i \in 1..Len(rows) |-> <<by[i], rows[i]>>])
    IN  [i \in 1..Len(sorted) |-> sorted[i][2]]

RECURSIVE unique(_)
\* Series.unique(): distinct values in order of first appearance.
unique(s) ==
    IF s = <<>> THEN <<>>
    ELSE LET u == unique(SubSeq(s, 1, Len(s) - 1))
         IN  IF \E i \in 1..Len(u) : u[i] = s[Len(s)] THEN u ELSE Append(u, s[Len(s)])

RECURSIVE sorted_names(_)
\* sorted(): a set of identifiers in ascending order
sorted_names(S) ==
    IF S = {} THEN <<>>
    ELSE LET m == CHOOSE x \in S : \A y \in S : NameOrd(x) <= NameOrd(y)
         IN  <<m>> \o sorted_names(S \ {m})

gifts_of(rows) == {rows[i].gift : i \in 1..Len(rows)}

gift_column(rows) == [i \in 1..Len(rows) |-> rows[i].gift]

\* df[df['character'].isin(selected)]
isin(rows, sel) == SelectSeq(rows, LAMBDA r : r.character \in sel)

\* groupby('gift')['effect_cat'] max of the group of gift g
group_max(rows, g) ==
    SetMax({effect_cat(rows[i].effect) : i \in {j \in 1..Len(rows) : rows[j].gift = g}})

\* groupby('gift')['character'].transform('count')
group_count(rows, g) == Cardinality({i \in 1..Len(rows) : rows[i].gift = g})

\* best_use without the peak filter: every row of the selection survives
best_use_any_tier(rows) == SelectSeq(rows, LAMBDA r : r.effect \in valid_effects)

\* rows at their gift's maximum effect within rows
best_use(rows) ==
    SelectSeq(rows, LAMBDA r : effect_cat(r.effect) = group_max(rows, r.gift))

\* gift_competition counting rows (count) instead of distinct characters
gift_competition_rows(rows, g) == Cardinality({i \in 1..Len(rows) : rows[i].gift = g})

\* groupby('gift')['character'].nunique()
gift_competition(rows, g) ==
    Cardinality({rows[i].character : i \in {j \in 1..Len(rows) : rows[j].gift = g}})

----------------------------------------------------------------------------
(* load_data *)

load_df(csv) == SelectSeq(csv, LAMBDA r : r.effect \in valid_effects)

load_all_gifts(csv) == {csv[i].gift : i \in {j \in 1..Len(csv) : csv[j].gift # ""}}

load_all_characters(csv) ==
    sorted_names({csv[i].character : i \in {j \in 1..Len(csv) : csv[j].character # ""}})

----------------------------------------------------------------------------
(* Queries *)

base_columns == {"character", "gift", "effect", "effect_cat"}

\* find_best_gifts without the restriction to the selected characters
find_best_gifts_unfiltered(d, sel) ==
    IF d = <<>> \/ sel = {}
    THEN [columns |-> {}, rows |-> <<>>]
    ELSE [columns |-> base_columns \cup {"num_chars"}, rows |-> d]

\* A DataFrame is its column labels and its rows; pd.DataFrame() has neither.
find_best_gifts(d, sel) ==
    IF d = <<>> \/ sel = {}
    THEN [columns |-> {}, rows |-> <<>>]
    ELSE LET result == isin(d, sel)
             key(r) == << -group_count(result, r.gift), -effect_cat(r.effect),
                          NameOrd(r.gift)>>
         IN  IF result # <<>>
             THEN [columns |-> base_columns \cup {"num_chars"},
                   rows |-> sort_values(result, [i \in 1..Len(result) |-> key(result[i])])]
             ELSE [columns |-> base_columns, rows |-> <<>>]

empty_buckets == [unique |-> <<>>, shared |-> <<>>]

\* sort key of a character's unique gifts: rarity desc, effect desc, gift asc
unique_sort_key(rd, r) ==
    << -rarity_get(rd, r.gift), -effect_cat(r.effect), NameOrd(r.gift)>>

\* shared_sort_key with the competition column left out of `by`
shared_sort_key_no_competition(rd, best, r) ==
    << -rarity_get(rd, r.gift), -effect_cat(r.effect), NameOrd(r.gift)>>

\* sort key of a character's shared gifts: rarity desc, competition asc,
\* effect desc, gift asc
shared_sort_key(rd, best, r) ==
    << -rarity_get(rd, r.gift), gift_competition(best, r.gift),
       -effect_cat(r.effect), NameOrd(r.gift)>>

\* char_buckets taking competition >= 1 for shared
char_buckets_shared_from_one(best, char, rd) ==
    LET char_gifts == SelectSeq(best, LAMBDA r : r.character = char)
        unique_gifts ==
            SelectSeq(char_gifts, LAMBDA r : gift_competition(best, r.gift) = 1)
        shared_gifts ==
            SelectSeq(char_gifts, LAMBDA r : gift_competition(best, r.gift) >= 1)
        ukey(r) == unique_sort_key(rd, r)
        skey(r) == shared_sort_key(rd, best, r)
    IN  IF char_gifts # <<>>
        THEN [unique |-> gift_column(sort_values(unique_gifts,
                            [i \in 1..Len(unique_gifts) |-> ukey(unique_gifts[i])])),
              shared |-> gift_column(sort_values(shared_gifts,
                            [i \in 1..Len(shared_gifts) |-> skey(shared_gifts[i])]))]
        ELSE empty_buckets

\* the two buckets of one character, from the best-use rows of the selection
char_buckets(best, char, rd) ==
    LET char_gifts == SelectSeq(best, LAMBDA r : r.character = char)
        unique_gifts ==
            SelectSeq(char_gifts, LAMBDA r : gift_competition(best, r.gift) = 1)
        shared_gifts ==
            SelectSeq(char_gifts, LAMBDA r : gift_competition(best, r.gift) > 1)
        ukey(r) == unique_sort_key(rd, r)
        skey(r) == shared_sort_key(rd, best, r)
    IN  IF char_gifts # <<>>
        THEN [unique |-> gift_column(sort_values(unique_gifts,
                            [i \in 1..Len(unique_gifts) |-> ukey(unique_gifts[i])])),
              shared |-> gift_column(sort_values(shared_gifts,
                            [i \in 1..Len(shared_gifts) |-> skey(shared_gifts[i])]))]
        ELSE empty_buckets

get_optimal_gifts_per_character(d, sel, rd) ==
    IF d = <<>> \/ sel = {}
    THEN <<>>
    ELSE LET filtered == isin(d, sel)
             best == best_use(filtered)
         IN  IF filtered = <<>>
             THEN [char \in sel |-> empty_buckets]
             ELSE [char \in sel |-> char_buckets(best, char, rd)]

\* reverse_sort_key with competition descending
reverse_sort_key_most_contended(e) ==
    << -e.rarity, -e.competition, -e.effect_order, NameOrd(e.gift)>>

\* sort key of the reverse lookup's items
reverse_sort_key(e) ==
    << -e.rarity, e.competition, -e.effect_order, NameOrd(e.gift)>>

\* reverse_entry listing only the character of the gift's first row
reverse_entry_first_character(shared, g, rd) ==
    LET gift_chars == SelectSeq(shared, LAMBDA r : r.gift = g)
    IN  [gift |-> g,
         characters |-> <<gift_chars[1].character>>,
         rarity |-> rarity_get(rd, g),
         competition |-> gift_competition(shared, g),
         effect_order |-> effect_order_dict[gift_chars[1].effect]]

\* one entry of the reverse lookup, from the rows of the shared gifts
reverse_entry(shared, g, rd) ==
    LET gift_chars == SelectSeq(shared, LAMBDA r : r.gift = g)
    IN  [gift |-> g,
         characters |-> sorted_names({gift_chars[i].character : i \in 1..Len(gift_chars)}),
         rarity |-> rarity_get(rd, g),
         competition |-> gift_competition(shared, g),
         effect_order |-> effect_order_dict[gift_chars[1].effect]]

\* The returned dict keeps insertion order: a sequence of entries keyed by gift.
get_shared_gifts_reverse_lookup(d, sel, rd) ==
    IF d = <<>> \/ sel = {}
    THEN <<>>
    ELSE LET filtered == isin(d, sel)
             best == best_use(filtered)
             shared == SelectSeq(best, LAMBDA r : gift_competition(best, r.gift) > 1)
             names == unique(gift_column(shared))
             items == [i \in 1..Len(names) |-> reverse_entry(shared, names[i], rd)]
         IN  IF filtered = <<>> \/ shared = <<>>
             THEN <<>>
             ELSE sort_values(items, [i \in 1..Len(items) |-> reverse_sort_key(items[i])])

\* the gifts get_generation_candidates keeps before ranking
is_yellow(rd, g) == rarity_get(rd, g) = 0

\* yellow.loc[yellow.groupby('gift')['effect_cat'].idxmax()]: for each gift, in
\* gift order, the first row attaining the gift's maximum effect
best_effect_rows(rows) ==
    LET names == sorted_names(gifts_of(rows))
        idxmax(g) == Head(SelectSeq(rows, LAMBDA r :
                            r.gift = g /\ effect_cat(r.effect) = group_max(rows, g)))
    IN  [p \in 1..Len(names) |-> idxmax(names[p])]

generation_sort_key(top, r) == << -group_count(top, r.gift), NameOrd(r.gift)>>

get_generation_candidates(d, sel, rd) ==
    IF d = <<>> \/ sel = {}
    THEN <<>>
    ELSE LET filtered == isin(d, sel)
             yellow == SelectSeq(filtered, LAMBDA r : is_yellow(rd, r.gift))
             best_effect == best_effect_rows(yellow)
             max_effect == SetMax({effect_cat(best_effect[i].effect) :
                                      i \in 1..Len(best_effect)})
             top == SelectSeq(best_effect, LAMBDA r : effect_cat(r.effect) = max_effect)
             key(r) == generation_sort_key(top, r)
         IN  IF filtered = <<>> \/ yellow = <<>>
             THEN <<>>
             ELSE unique(gift_column(sort_values(top, [i \in 1..Len(top) |-> key(top[i])])))

\* the gifts of the universe without a row in result_df
useless_set(universe, result) == universe \ gifts_of(result.rows)

\* list(set): every iteration order of the set
orderings(S) ==
    {s \in [1..Cardinality(S) -> S] : \A i, j \in 1..Cardinality(S) : i # j => s[i] # s[j]}

is_rare(rd, g) == rarity_get(rd, g) = 1

common_sort_key(rd, g) == << -rarity_get(rd, g), NameOrd(g)>>

sort_common_useless(useless, rd) ==
    LET common == SelectSeq(useless, LAMBDA g : ~is_rare(rd, g))
    IN  sort_values(common, [i \in 1..Len(common) |-> common_sort_key(rd, common[i])])

sort_rare_useless(useless, rd) ==
    LET rare == SelectSeq(useless, LAMBDA g : is_rare(rd, g))
    IN  sort_values(rare, [i \in 1..Len(rare) |-> <<NameOrd(rare[i])>>])

----------------------------------------------------------------------------
(* State machine: the script run at start-up and on every interaction *)

no_frame == [columns |-> {}, rows |-> <<>>]

\* a rerun of the script without a search computes no result
cleared ==
    /\ result_df' = no_frame
    /\ optimal_gifts_data' = <<>>
    /\ shared_gifts_reverse' = <<>>
    /\ generation_candidates' = <<>>
    /\ common_useless_gifts' = <<>>
    /\ rare_useless_gifts_sorted' = <<>>

CsvRows == [character : Characters, gift : Gifts, effect : valid_effects \cup {""}]

\* position of a row's (character, gift) pair in a file grouped by character,
\* then gift
PairOrd(r) == Len(Identifiers) * NameOrd(r.character) + NameOrd(r.gift)

\* gifts.csv: at most MaxRows rows, grouped by character and gift; a pair may be
\* repeated, with any effects
CsvFiles ==
    {s \in UNION {[1..n -> CsvRows] : n \in 0..MaxRows} :
        \A i \in 1..(Len(s) - 1) : PairOrd(s[i]) <= PairOrd(s[i + 1])}

\* load_rarity_data: rarity.csv rates every gift, or is missing and the map is {}
RarityFiles == [Gifts -> RarityValues] \cup {<<>>}

\* a fuller file: three characters, every pair of Roster once, in Roster order
Roster == <<<<"A", "X">>, <<"A", "Y">>, <<"B", "X">>, <<"B", "Y">>, <<"C", "X">>>>

RosterEffects == {"MEDIUM", "HUGE"}

RosterFiles ==
    {[i \in 1..Len(Roster) |->
        [character |-> Roster[i][1], gift |-> Roster[i][2], effect |-> e[i]]] :
            e \in [1..Len(Roster) -> RosterEffects]}

Init ==
    \E csv \in CsvFiles \cup RosterFiles, rd \in RarityFiles :
        /\ df = load_df(csv)
        /\ all_characters = load_all_characters(csv)
        /\ all_gifts = load_all_gifts(csv)
        /\ rarity_dict = rd
        /\ selected_characters = {}
        /\ pc = "idle"
        /\ result_df = no_frame
        /\ optimal_gifts_data = <<>>
        /\ shared_gifts_reverse = <<>>
        /\ generation_candidates = <<>>
        /\ common_useless_gifts = <<>>
        /\ rare_useless_gifts_sorted = <<>>

\* the multiselect gains an option of all_characters
Select ==
    \E i \in 1..Len(all_characters) :
        /\ all_characters[i] \notin selected_characters
        /\ selected_characters' = selected_characters \cup {all_characters[i]}
        /\ pc' = "idle"
        /\ cleared
        /\ UNCHANGED <<df, all_characters, all_gifts, rarity_dict>>

\* the multiselect loses a chosen option
Deselect ==
    \E c \in selected_characters :
        /\ selected_characters' = selected_characters \ {c}
        /\ pc' = "idle"
        /\ cleared
        /\ UNCHANGED <<df, all_characters, all_gifts, rarity_dict>>

\* the search button with nothing selected: a warning, no query runs
SearchNothing ==
    /\ selected_characters = {}
    /\ pc' = "warning"
    /\ cleared
    /\ UNCHANGED <<df, all_characters, all_gifts, rarity_dict, selected_characters>>

\* the search button when result_df has no 'gift' column: the script stops at
\* result_df['gift'] with the two queries before it done
SearchKeyError ==
    /\ pc = "idle"
    /\ selected_characters # {}
    /\ "gift" \notin find_best_gifts(df, selected_characters).columns
    /\ result_df' = find_best_gifts(df, selected_characters)
    /\ optimal_gifts_data' =
            get_optimal_gifts_per_character(df, selected_characters, rarity_dict)
    /\ shared_gifts_reverse' =
            get_shared_gifts_reverse_lookup(df, selected_characters, rarity_dict)
    /\ pc' = "KeyError"
    /\ generation_candidates' = <<>>
    /\ common_useless_gifts' = <<>>
    /\ rare_useless_gifts_sorted' = <<>>
    /\ UNCHANGED <<df, all_characters, all_gifts, rarity_dict, selected_characters>>

\* the search button: every query of the page, in the script's order.  It is
\* taken from the page an interaction left; pressed again on its own result it
\* runs the same queries on the same inputs.
Search ==
    /\ pc = "idle"
    /\ selected_characters # {}
    /\ "gift" \in find_best_gifts(df, selected_characters).columns
    /\ result_df' = find_best_gifts(df, selected_characters)
    /\ optimal_gifts_data' =
            get_optimal_gifts_per_character(df, selected_characters, rarity_dict)
    /\ shared_gifts_reverse' =
            get_shared_gifts_reverse_lookup(df, selected_characters, rarity_dict)
    /\ \E useless_gifts \in orderings(useless_set(all_gifts, result_df')) :
            /\ common_useless_gifts' = sort_common_useless(useless_gifts, rarity_dict)
            /\ rare_useless_gifts_sorted' = sort_rare_useless(useless_gifts, rarity_dict)
    /\ generation_candidates' =
            get_generation_candidates(df, selected_characters, rarity_dict)
    /\ pc' = "done"
    /\ UNCHANGED <<df, all_characters, all_gifts, rarity_dict, selected_characters>>

Next == Select \/ Deselect \/ SearchNothing \/ SearchKeyError \/ Search

Spec == Init /\ [][Next]_vars

----------------------------------------------------------------------------
(* Properties.  They are stated over the loaded relation itself, not over the
   operators that model the queries. *)

Tier(e) == CASE e = "MEDIUM" -> 0 [] e = "LARGE" -> 1 [] e = "HUGE" -> 2

Rarity(g) == IF g \in DOMAIN rarity_dict THEN rarity_dict[g] ELSE 0

\* the valid rows of the characters in S
RowsOf(S) == {df[i] : i \in {j \in 1..Len(df) : df[j].character \in S}}

\* tiers the characters of S reach with gift g
TiersOf(S, g) == {Tier(r.effect) : r \in {q \in RowsOf(S) : q.gift = g}}

Reachable(S, g) == TiersOf(S, g) # {}

Peak(S, g) == CHOOSE t \in TiersOf(S, g) : \A u \in TiersOf(S, g) : u <= t

\* the characters of S attaining the peak tier of g
Contenders(S, g) ==
    {c \in S : \E r \in RowsOf({c}) : r.gift = g /\ Tier(r.effect) = Peak(S, g)}

Competition(S, g) == Cardinality(Contenders(S, g))

Has(list, x) == \E i \in 1..Len(list) : list[i] = x

ElemsOf(list) == {list[i] : i \in 1..Len(list)}

NoRepeat(list) == \A i, j \in 1..Len(list) : i # j => list[i] # list[j]

\* keys, the sort keys of a list's elements, never decrease along the list
Ordered(keys) ==
    \A i, j \in 1..Len(keys) : i < j => ~LexLess(keys[j], keys[i])

Before(list, x, y) ==
    \E i, j \in 1..Len(list) : i < j /\ list[i] = x /\ list[j] = y


\* the two per-selection queries have run (the script may stop after them)
Queried == pc \in {"done", "KeyError"}

BucketsOf(data, c) == IF c \in DOMAIN data THEN data[c] ELSE empty_buckets

InBuckets(data, c, g) ==
    Has(BucketsOf(data, c).unique, g) \/ Has(BucketsOf(data, c).shared, g)

ReverseGifts(rev) == {rev[i].gift : i \in 1..Len(rev)}

\* C1: after a search, the per-character mapping has a key for every selected
\* character, and a character none of whose rows is at a peak tier maps to
\* two empty lists.
C1_EveryCharacterHasEntry ==
    Queried =>
        \A c \in selected_characters :
            /\ c \in DOMAIN optimal_gifts_data
            /\ (\A g \in Gifts : c \notin Contenders(selected_characters, g))
                    => optimal_gifts_data[c] = empty_buckets

\* C2: gift g is in selected character c's shared list exactly when the
\* reverse lookup has an entry for g whose characters list holds c.
C2_SharedIffReverse ==
    Queried =>
        \A c \in selected_characters, g \in Gifts :
            Has(BucketsOf(optimal_gifts_data, c).shared, g)
                <=> \E i \in 1..Len(shared_gifts_reverse) :
                        /\ shared_gifts_reverse[i].gift = g
                        /\ Has(shared_gifts_reverse[i].characters, c)

C2_Witness ==
    /\ Queried
    /\ \E c, d \in selected_characters, g \in Gifts :
            /\ Has(BucketsOf(optimal_gifts_data, c).shared, g)
            /\ ~Has(BucketsOf(optimal_gifts_data, d).shared, g)
            /\ BucketsOf(optimal_gifts_data, d).shared # <<>>

\* with d added to the selection, g is in no unique bucket, in the shared
\* buckets of c and d, and in the reverse lookup with competition 2
MovedToShared(c, d, g) ==
    LET with == selected_characters \cup {d}
        optimal == get_optimal_gifts_per_character(df, with, rarity_dict)
        reverse == get_shared_gifts_reverse_lookup(df, with, rarity_dict)
    IN  /\ \A x \in with : ~Has(BucketsOf(optimal, x).unique, g)
        /\ Has(BucketsOf(optimal, c).shared, g)
        /\ Has(BucketsOf(optimal, d).shared, g)
        /\ \E i \in 1..Len(reverse) : reverse[i].gift = g /\ reverse[i].competition = 2

\* d, not selected, has a row for g at the tier t
HasRowAt(d, g, t) == \E r \in RowsOf({d}) : r.gift = g /\ Tier(r.effect) = t

\* C3 as stated: a unique gift has competition 1, and adding to the selection
\* any character with a row for it at the same peak tier moves it to the shared
\* buckets of both, with competition 2.
C3_AnyRowAtPeak ==
    Queried =>
        \A c \in selected_characters, g \in Gifts :
            Has(BucketsOf(optimal_gifts_data, c).unique, g) =>
                /\ Competition(selected_characters, g) = 1
                /\ \A d \in ElemsOf(all_characters) \ selected_characters :
                        HasRowAt(d, g, Peak(selected_characters, g))
                            => MovedToShared(c, d, g)

\* C3 amended: a unique gift has competition 1, and adding to the selection a
\* character whose best row for it is at the same peak tier moves it to the
\* shared buckets of both, with competition 2.
C3_BestRowAtPeak ==
    Queried =>
        \A c \in selected_characters, g \in Gifts :
            Has(BucketsOf(optimal_gifts_data, c).unique, g) =>
                /\ Competition(selected_characters, g) = 1
                /\ \A d \in ElemsOf(all_characters) \ selected_characters :
                        (Reachable({d}, g) /\ Peak({d}, g) = Peak(selected_characters, g))
                            => MovedToShared(c, d, g)

C3_Witness ==
    /\ Queried
    /\ \E c \in selected_characters, g \in Gifts :
            /\ Has(BucketsOf(optimal_gifts_data, c).unique, g)
            /\ Cardinality({i \in 1..Len(df) : df[i].character = c /\ df[i].gift = g}) > 1
            /\ \E d \in ElemsOf(all_characters) \ selected_characters :
                    /\ Reachable({d}, g)
                    /\ Peak({d}, g) = Peak(selected_characters, g)

\* C4: in every character's result the unique and shared lists share no
\* gift, and every listed gift has a valid row of a selected character.
C4_DisjointAndReachable ==
    Queried =>
        \A c \in DOMAIN optimal_gifts_data :
            /\ ElemsOf(optimal_gifts_data[c].unique)
                    \cap ElemsOf(optimal_gifts_data[c].shared) = {}
            /\ \A g \in ElemsOf(optimal_gifts_data[c].unique)
                            \cup ElemsOf(optimal_gifts_data[c].shared) :
                    Reachable(selected_characters, g)

C4_Witness ==
    /\ Queried
    /\ \E c \in DOMAIN optimal_gifts_data :
            /\ optimal_gifts_data[c].unique # <<>>
            /\ optimal_gifts_data[c].shared # <<>>

\* gifts with a valid row of a selected character
Favorites == {g \in Gifts : Reachable(selected_characters, g)}

CommonKey(g) == << -Rarity(g), NameOrd(g)>>

NameKey(g) == <<NameOrd(g)>>

\* the two lists split universe - favorites by rarity 1, each in its order
UselessPartition ==
    /\ ElemsOf(common_useless_gifts) \cup ElemsOf(rare_useless_gifts_sorted)
            = all_gifts \ Favorites
    /\ ElemsOf(common_useless_gifts) \cap ElemsOf(rare_useless_gifts_sorted) = {}
    /\ NoRepeat(common_useless_gifts) /\ NoRepeat(rare_useless_gifts_sorted)
    /\ \A g \in ElemsOf(rare_useless_gifts_sorted) : Rarity(g) = 1
    /\ \A g \in ElemsOf(common_useless_gifts) : Rarity(g) # 1
    /\ Ordered([k \in 1..Len(rare_useless_gifts_sorted) |->
                    NameKey(rare_useless_gifts_sorted[k])])
    /\ Ordered([k \in 1..Len(common_useless_gifts) |->
                    CommonKey(common_useless_gifts[k])])

\* C5: a search with a non-empty selection yields the common and rare lists,
\* which split universe - favorites by rarity 1: rare in ascending name order,
\* common by (rarity descending, name ascending).
C5_UselessPartition == Queried => (pc = "done" /\ UselessPartition)

\* the same, for the searches that reach the useless-gift computation
C5_PartitionWhenDone == pc = "done" => UselessPartition

\* C6: g is in c's buckets exactly when c is selected and has a row for g at
\* the maximum effect of g over the rows of the selected characters; the
\* relation {(A,X,LARGE),(B,X,HUGE),(A,Y,MEDIUM)} with both selected gives
\* A: unique [Y], B: unique [X], nothing shared, an empty reverse lookup.
ExampleRelation ==
    /\ Len(df) = Cardinality(ElemsOf(df))
    /\ ElemsOf(df) = {[character |-> "A", gift |-> "X", effect |-> "LARGE"],
                      [character |-> "B", gift |-> "X", effect |-> "HUGE"],
                      [character |-> "A", gift |-> "Y", effect |-> "MEDIUM"]}

C6_Example ==
    (ExampleRelation /\ selected_characters = {"A", "B"})
        => /\ optimal_gifts_data = [c \in {"A", "B"} |->
                    IF c = "A" THEN [unique |-> <<"Y">>, shared |-> <<>>]
                               ELSE [unique |-> <<"X">>, shared |-> <<>>]]
           /\ shared_gifts_reverse = <<>>

C6_OnlyAtPeak ==
    Queried =>
        /\ \A c \in RosterCharacters, g \in Gifts :
                InBuckets(optimal_gifts_data, c, g)
                    <=> c \in Contenders(selected_characters, g)
        /\ C6_Example

C6_Witness ==
    /\ Queried
    /\ ExampleRelation
    /\ selected_characters = {"A", "B"}
    /\ ~InBuckets(optimal_gifts_data, "A", "X")

\* gifts generationCandidates may return: rarity other than 1, reachable
Eligible(g) == Rarity(g) # 1 /\ Reachable(selected_characters, g)

TopPeak ==
    CHOOSE t \in {Peak(selected_characters, g) : g \in {h \in Gifts : Eligible(h)}} :
        \A h \in {x \in Gifts : Eligible(x)} : Peak(selected_characters, h) <= t

\* C7: the candidates are exactly the gifts of rarity other than 1, with a row
\* of a selected character, whose peak tier is the greatest such peak.
C7_ExcludesOnlyRarityOne ==
    pc = "done" =>
        \A g \in Gifts :
            Has(generation_candidates, g)
                <=> (Eligible(g) /\ Peak(selected_characters, g) = TopPeak)

ContenderKey(g) == << -Competition(selected_characters, g), NameOrd(g)>>

\* C8: the candidates are in order of (number of selected characters attaining
\* the gift's peak tier, descending; gift name ascending).
C8_OrderedByContenders ==
    pc = "done" =>
        Ordered([k \in 1..Len(generation_candidates) |->
                    ContenderKey(generation_candidates[k])])

UniqueKey(g) == << -Rarity(g), -Peak(selected_characters, g), NameOrd(g)>>

SharedKey(g) ==
    << -Rarity(g), Competition(selected_characters, g),
       -Peak(selected_characters, g), NameOrd(g)>>

Reverse(s) == [i \in 1..Len(s) |-> s[Len(s) + 1 - i]]

\* C9: every unique list is in order of (rarity descending, effect tier
\* descending, name ascending), every shared list in order of (rarity
\* descending, competition ascending, effect tier descending, name ascending),
\* rarity 0 for a gift the map lacks; the rows in the opposite order give the
\* same lists.
C9_BucketOrder ==
    Queried =>
        /\ \A c \in DOMAIN optimal_gifts_data :
                LET u == optimal_gifts_data[c].unique
                    s == optimal_gifts_data[c].shared
                IN  /\ Ordered([k \in 1..Len(u) |-> UniqueKey(u[k])])
                    /\ Ordered([k \in 1..Len(s) |-> SharedKey(s[k])])
        /\ optimal_gifts_data =
                get_optimal_gifts_per_character(Reverse(df), selected_characters,
                                                rarity_dict)

\* a shared list led by the gift of less competition, lower tier, later name
C9_Witness ==
    /\ Queried
    /\ \E c \in DOMAIN optimal_gifts_data :
            /\ optimal_gifts_data[c].shared = <<"Y", "X">>
            /\ Competition(selected_characters, "Y") < Competition(selected_characters, "X")
            /\ Peak(selected_characters, "Y") < Peak(selected_characters, "X")

EntryKey(e) == SharedKey(e.gift)

\* C10: the reverse lookup has one entry for each gift of competition above 1
\* and no other; an entry lists the contending characters in ascending order,
\* its competition is their number, its rarity the map's value or 0; the
\* entries are in order of (rarity descending, competition ascending, effect
\* tier descending, name ascending), the order the shared lists keep.
C10_ReverseLookup ==
    Queried =>
        /\ ReverseGifts(shared_gifts_reverse)
                = {g \in Gifts : Reachable(selected_characters, g)
                                        /\ Competition(selected_characters, g) > 1}
        /\ \A i, j \in 1..Len(shared_gifts_reverse) :
                i # j => shared_gifts_reverse[i].gift # shared_gifts_reverse[j].gift
        /\ \A i \in 1..Len(shared_gifts_reverse) :
                LET e == shared_gifts_reverse[i]
                IN  /\ ElemsOf(e.characters) = Contenders(selected_characters, e.gift)
                    /\ NoRepeat(e.characters)
                    /\ Ordered([k \in 1..Len(e.characters) |->
                                    NameKey(e.characters[k])])
                    /\ e.competition = Len(e.characters)
                    /\ e.rarity = Rarity(e.gift)
                    /\ e.effect_order = Peak(selected_characters, e.gift)
        /\ Ordered([k \in 1..Len(shared_gifts_reverse) |->
                        EntryKey(shared_gifts_reverse[k])])
        /\ \A c \in DOMAIN optimal_gifts_data, g \in Gifts, h \in Gifts :
                (g # h /\ Before(optimal_gifts_data[c].shared, g, h))
                    => \E i, j \in 1..Len(shared_gifts_reverse) :
                            /\ i < j
                            /\ shared_gifts_reverse[i].gift = g
                            /\ shared_gifts_reverse[j].gift = h

C10_Witness ==
    /\ Queried
    /\ Len(shared_gifts_reverse) = 2
    /\ shared_gifts_reverse[1].gift = "Y"
    /\ shared_gifts_reverse[1].competition = 2
    /\ shared_gifts_reverse[2].competition = 3
    /\ shared_gifts_reverse[1].effect_order < shared_gifts_reverse[2].effect_order
    /\ shared_gifts_reverse[1].rarity = 0
    /\ "X" \notin DOMAIN rarity_dict

\* C11: a search with a non-empty selection over an empty validated relation
\* does not fail: no gift is a favorite and the useless lists hold the whole
\* universe, the gifts of rarity 1 in rare and the others in common.
C11_EmptyRelationSearch ==
    (Queried /\ df = <<>> /\ selected_characters # {}) =>
        /\ pc = "done"
        /\ gifts_of(result_df.rows) = {}
        /\ ElemsOf(rare_useless_gifts_sorted) = {g \in all_gifts : Rarity(g) = 1}
        /\ ElemsOf(common_useless_gifts) = {g \in all_gifts : Rarity(g) # 1}

\* the index sets that keep exactly one row of df for each (character, gift)
OnePerPair ==
    {I \in SUBSET (1..Len(df)) :
        \A i \in 1..Len(df) :
            Cardinality({j \in I : /\ df[j].character = df[i].character
                                   /\ df[j].gift = df[i].gift}) = 1}

\* the rows of df at the indices I, in file order
Kept(I) ==
    [p \in 1..Cardinality(I) |->
        df[CHOOSE i \in I : Cardinality({j \in I : j < i}) = p - 1]]

\* the per-character result with every repeated gift of a list dropped
WithoutRepeats(data) ==
    [c \in DOMAIN data |-> [unique |-> unique(data[c].unique),
                            shared |-> unique(data[c].shared)]]

\* C12: with repeated (character, gift) rows the per-character result is the
\* result on some relation keeping one row of each pair: a gift one character
\* alone peaks is never shared, and no list names a gift twice.
C12_DuplicatesCollapse ==
    Queried =>
        /\ \A c \in DOMAIN optimal_gifts_data :
                /\ NoRepeat(optimal_gifts_data[c].unique)
                /\ NoRepeat(optimal_gifts_data[c].shared)
        /\ \A c \in DOMAIN optimal_gifts_data, g \in Gifts :
                Competition(selected_characters, g) = 1
                    => ~Has(optimal_gifts_data[c].shared, g)
        /\ \E I \in OnePerPair :
                optimal_gifts_data =
                    get_optimal_gifts_per_character(Kept(I), selected_characters,
                                                    rarity_dict)

\* the same, up to the repeats within a list
C12_CollapseUpToRepeats ==
    Queried =>
        /\ \A c \in DOMAIN optimal_gifts_data, g \in Gifts :
                Competition(selected_characters, g) = 1
                    => ~Has(optimal_gifts_data[c].shared, g)
        /\ \E I \in OnePerPair :
                WithoutRepeats(optimal_gifts_data) =
                    get_optimal_gifts_per_character(Kept(I), selected_characters,
                                                    rarity_dict)

\* the candidates under the test g passes the rarity filter: one peak tier,
\* the greatest among the gifts passing, all of them at it, each once
CandidatesAre(passing) ==
    /\ \A g \in ElemsOf(generation_candidates) :
            /\ g \in passing
            /\ \A h \in passing :
                    Peak(selected_characters, h) <= Peak(selected_characters, g)
    /\ \A g \in passing :
            (\A h \in passing : Peak(selected_characters, h) <= Peak(selected_characters, g))
                => Has(generation_candidates, g)
    /\ NoRepeat(generation_candidates)

\* C13: the candidates share one peak tier, the greatest peak among the
\* gifts of rarity other than 1 with a row of a selected character; every
\* such gift at that peak is returned, once; with no such gift, or nothing
\* selected, the list is empty.
C13_TopTierCandidates ==
    /\ pc = "done" => CandidatesAre({g \in Gifts : Eligible(g)})
    /\ pc = "warning" => generation_candidates = <<>>
    /\ get_generation_candidates(df, {}, rarity_dict) = <<>>

\* the same with the filter the code applies, rarity 0
C13_TopTierOfRarityZero ==
    /\ pc = "done" =>
            CandidatesAre({g \in Gifts : Rarity(g) = 0 /\ Reachable(selected_characters, g)})
    /\ pc = "warning" => generation_candidates = <<>>
    /\ get_generation_candidates(df, {}, rarity_dict) = <<>>

\* the gifts in a bucket, unique or shared, of some character of the result
Assigned ==
    {g \in Gifts : \E c \in DOMAIN optimal_gifts_data : InBuckets(optimal_gifts_data, c, g)}

\* the gifts of the two useless lists
Useless == ElemsOf(common_useless_gifts) \cup ElemsOf(rare_useless_gifts_sorted)

\* C14: with a non-empty relation and a non-empty selection, the gifts in the
\* buckets of the selected characters are the favorites, and the universe is
\* the disjoint union of the useless gifts and the assigned gifts: no gift is
\* both, and no gift with a row of a selected character is left unassigned.
C14_AssignedOrUseless ==
    (Queried /\ df # <<>> /\ selected_characters # {}) =>
        /\ pc = "done"
        /\ DOMAIN optimal_gifts_data \subseteq selected_characters
        /\ Assigned = gifts_of(result_df.rows)
        /\ Assigned = Favorites
        /\ Assigned \cup Useless = all_gifts
        /\ Assigned \cap Useless = {}

\* a search where one gift is assigned, another is useless, and a row of the
\* selection below its gift's peak puts the gift in no bucket of its character
C14_Witness ==
    /\ pc = "done"
    /\ df # <<>>
    /\ Assigned # {}
    /\ Useless # {}
    /\ \E c \in selected_characters, g \in Assigned :
            /\ \E r \in RowsOf({c}) : r.gift = g
            /\ ~InBuckets(optimal_gifts_data, c, g)

====
